---- MODULE Spec2Model ----
(***************************************************************************)
(* Model of the smart-energy-system synchronisation core:                  *)
(*   - the Dashboard component, in its two versions                        *)
(*       "latch"   : src/unnamed/part_001 (lowBatteryOptimizationTriggered)*)
(*       "prevref" : src/src/components/dashboard/dashboard.tsx            *)
(*                   (previousBatteryLevel)                                *)
(*   - the controller firmware's streamCallback, in its two sketches       *)
(*     (src/unnamed/part_000).                                             *)
(* Every handler (subscription callback, click handler, promise           *)
(* continuation, effect) is one action.                                    *)
(***************************************************************************)
EXTENDS Integers, Sequences, FiniteSets, TLC

\* ------------------------------------------------------------------ bounds
MaxRequests == 2        \* handleOptimization calls that have not finished
MaxPredictions == 1     \* stand-alone handlePrediction calls in flight
MaxBatches == 1         \* decisions whose relay writes are still in flight
MaxToggleWrites == 1    \* manual-toggle writes in flight

\* ------------------------------------------------------- program constants
Threshold == 40
NumSwitches == 5
NoLevel == -1           \* undefined / null where a number is expected
NaN == -1               \* parseInt's result for a key without leading digits

RelayIds == 1..NumSwitches

\* battery levels a telemetry record can carry, and the values
\* INITIAL_ENERGY_DATA.batteryLevel is taken from
Levels == {5, 35, 45, 65}
InitialBatteryLevels == {0, 75}

\* policy outputs (switch1State .. switch5State, wire convention)
Decisions == { <<TRUE, TRUE, TRUE, TRUE, TRUE>>,
               <<TRUE, FALSE, FALSE, TRUE, FALSE>> }

\* relays the operator toggles
ToggleIds == {3}

VARIABLES
  variant,                         \* which version of Dashboard runs
  mounted,                         \* mount effects have run
  initBattery,                     \* INITIAL_ENERGY_DATA.batteryLevel
  energyData,                      \* useState energyData
  lowBatteryOptimizationTriggered, \* useRef, "latch" version
  previousBatteryLevel,            \* useRef, "prevref" version
  prediction,                      \* useState prediction is non-null
  predictionCalls,                 \* stand-alone handlePrediction calls in flight
  requests,                        \* handleOptimization calls in flight, by kind
  isOptimizing,                    \* useState isOptimizing
  switches,                        \* useState switches
  store,                           \* app/switchStates: id -> wire state
  writes,                          \* updateSwitchState calls in flight, in call order
  notify,                          \* a store change not yet delivered to onValue
  aiReasoning,                     \* useState aiReasoning: the decision whose
                                   \* reasoning is shown, <<>> for the initial text
  \* history variables
  observed,                        \* a telemetry snapshot has been handled
  excursionFires,                  \* fires since the last snapshot with level >= 40
  deferredFire,                    \* a fire of this excursion found no forecast and
                                   \* has not reached the policy
  staleAutoCall,                   \* an automatic handleOptimization call was given
                                   \* energy data other than the snapshot that fired it
  \* controller firmware
  sketch,                          \* which of the two sketches runs
  pin,                             \* level last written to each relay pin
  fwSeen                           \* the stored state last processed for each relay

dashVars == <<variant, mounted, initBattery, energyData,
              lowBatteryOptimizationTriggered, previousBatteryLevel,
              prediction, predictionCalls, requests, isOptimizing,
              switches, store, writes, notify, aiReasoning,
              observed, excursionFires, deferredFire, staleAutoCall>>

fwVars == <<sketch, pin, fwSeen>>

vars == <<dashVars, fwVars>>

guardVars == <<energyData, lowBatteryOptimizationTriggered, previousBatteryLevel>>
guardHist == <<observed, excursionFires, deferredFire, staleAutoCall>>
optVars   == <<prediction, predictionCalls, requests, isOptimizing>>
relayVars == <<switches, store, writes, notify>>
fixedVars == <<variant, mounted, initBattery, fwVars>>

Min(a, b) == IF a < b THEN a ELSE b
Range(f) == {f[i] : i \in DOMAIN f}

\* ------------------------------------------------------------- WireCodec
\* ToLogical without the inversion
ToLogicalIdentity(wireState) == wireState

\* newUiState = !s.state
ToLogical(wireState) == ~wireState
\* the server action inverts the UI state for the store
ToWire(logicalOn) == ~logicalOn

\* ------------------------------------------------ handleOptimization calls
ReqKinds == [auto : BOOLEAN, stage : {"forecast", "policy"}]
NoRequests == [k \in ReqKinds |-> 0]
ReqTotal(reqs) ==
  reqs[[auto |-> TRUE, stage |-> "forecast"]] + reqs[[auto |-> FALSE, stage |-> "forecast"]]
  + reqs[[auto |-> TRUE, stage |-> "policy"]] + reqs[[auto |-> FALSE, stage |-> "policy"]]
InPolicy(reqs) ==
  reqs[[auto |-> TRUE, stage |-> "policy"]] + reqs[[auto |-> FALSE, stage |-> "policy"]]

\* ContinueOptimization without the test of latestPrediction
ContinueOptimizationUnchecked(st, auto, latestPrediction) ==
  [requests |-> [st.requests EXCEPT ![[auto |-> auto, stage |-> "policy"]] = @ + 1],
   isOptimizing |-> TRUE]

\* setPrediction(latestPrediction => ...): the part of handleOptimization
\* after the forecast is known.  st = [requests, isOptimizing].
ContinueOptimization(st, auto, latestPrediction) ==
  IF ~latestPrediction
  THEN [requests |-> st.requests,
        isOptimizing |-> IF variant = "prevref" THEN FALSE ELSE st.isOptimizing]
  ELSE [requests |-> [st.requests EXCEPT ![[auto |-> auto, stage |-> "policy"]] = @ + 1],
        isOptimizing |-> TRUE]

\* handleOptimization up to its first await
HandleOptimization(st, auto) ==
  IF ~prediction
  THEN [requests |-> [st.requests EXCEPT ![[auto |-> auto, stage |-> "forecast"]] = @ + 1],
        isOptimizing |-> st.isOptimizing]
  ELSE ContinueOptimization(st, auto, prediction)

\* setAiReasoning('') at the start of handlePrediction, which calls
\* handleOptimization calls make when there is no forecast
ReasoningAfterCalls(calls) == IF calls > 0 /\ ~prediction THEN <<>> ELSE aiReasoning

\* -------------------------------------------------------------- telemetry
\* LatchUpdater with the flag reset by every snapshot that does not fire
LatchUpdaterResetsBelow(prev, latch, b) ==
  LET newBatteryLevel == IF b = NoLevel THEN prev.batteryLevel ELSE b
      hasJustDropped == newBatteryLevel < Threshold /\ prev.batteryLevel >= Threshold
      next == [prev EXCEPT !.batteryLevel = newBatteryLevel]
  IN  IF hasJustDropped /\ ~latch
      THEN [fire |-> TRUE, latch |-> TRUE, next |-> next]
      ELSE [fire |-> FALSE, latch |-> FALSE, next |-> next]

\* the setEnergyData updater of the "latch" version
LatchUpdater(prev, latch, b) ==
  LET newBatteryLevel == IF b = NoLevel THEN prev.batteryLevel ELSE b
      hasJustDropped == newBatteryLevel < Threshold /\ prev.batteryLevel >= Threshold
      next == [prev EXCEPT !.batteryLevel = newBatteryLevel]
  IN  IF hasJustDropped /\ ~latch
      THEN [fire |-> TRUE, latch |-> TRUE, next |-> next]
      ELSE IF newBatteryLevel >= Threshold
           THEN [fire |-> FALSE, latch |-> FALSE, next |-> next]
           ELSE [fire |-> FALSE, latch |-> latch, next |-> next]

\* the decision of the "prevref" version's onValue callback
RefFires(prevBatteryLevel, b) ==
  prevBatteryLevel # NoLevel /\ b # NoLevel /\ b < Threshold /\ prevBatteryLevel >= Threshold

RefNewEnergyData(b) ==
  [batteryLevel |-> IF b = NoLevel THEN initBattery ELSE b]

RecordSnapshot(b, fires, stale) ==
  /\ observed' = TRUE
  /\ staleAutoCall' = (staleAutoCall \/ stale)
  /\ excursionFires' = IF b # NoLevel /\ b >= Threshold
                       THEN fires
                       ELSE Min(excursionFires + fires, 2)
  /\ deferredFire' = IF fires > 0 /\ ~prediction THEN TRUE
                     ELSE IF b # NoLevel /\ b >= Threshold THEN FALSE
                     ELSE deferredFire

\* SnapshotLatch with a flag that, once set, stays set
SnapshotLatchNeverClears(b, runs) ==
  /\ mounted /\ variant = "latch"
  /\ LET r1 == LatchUpdater(energyData, lowBatteryOptimizationTriggered, b)
         r2 == LatchUpdater(energyData, r1.latch, b)
         last == IF runs = 2 THEN r2 ELSE r1
         st0 == [requests |-> requests, isOptimizing |-> isOptimizing]
         st1 == IF r1.fire THEN HandleOptimization(st0, TRUE) ELSE st0
         st2 == IF runs = 2 /\ r2.fire THEN HandleOptimization(st1, TRUE) ELSE st1
         fires == (IF r1.fire THEN 1 ELSE 0) + (IF runs = 2 /\ r2.fire THEN 1 ELSE 0)
     IN  /\ ReqTotal(requests) + fires <= MaxRequests
         /\ energyData' = last.next
         /\ lowBatteryOptimizationTriggered' =
              (lowBatteryOptimizationTriggered \/ last.latch)
         /\ requests' = st2.requests
         /\ isOptimizing' = st2.isOptimizing
         \* handleOptimization(true) reads the energyData of its closure
         /\ RecordSnapshot(b, fires, fires > 0 /\ energyData # last.next)
         /\ aiReasoning' = ReasoningAfterCalls(fires)
  /\ UNCHANGED <<fixedVars, previousBatteryLevel, prediction, predictionCalls, relayVars>>

\* onValue(energyDataQuery) callback, "latch" version; the updater runs
\* once, or twice when React re-invokes updater functions
SnapshotLatch(b, runs) ==
  /\ mounted /\ variant = "latch"
  /\ LET r1 == LatchUpdater(energyData, lowBatteryOptimizationTriggered, b)
         r2 == LatchUpdater(energyData, r1.latch, b)
         last == IF runs = 2 THEN r2 ELSE r1
         st0 == [requests |-> requests, isOptimizing |-> isOptimizing]
         st1 == IF r1.fire THEN HandleOptimization(st0, TRUE) ELSE st0
         st2 == IF runs = 2 /\ r2.fire THEN HandleOptimization(st1, TRUE) ELSE st1
         fires == (IF r1.fire THEN 1 ELSE 0) + (IF runs = 2 /\ r2.fire THEN 1 ELSE 0)
     IN  /\ ReqTotal(requests) + fires <= MaxRequests
         /\ energyData' = last.next
         /\ lowBatteryOptimizationTriggered' = last.latch
         /\ requests' = st2.requests
         /\ isOptimizing' = st2.isOptimizing
         \* handleOptimization(true) reads the energyData of its closure
         /\ RecordSnapshot(b, fires, fires > 0 /\ energyData # last.next)
         /\ aiReasoning' = ReasoningAfterCalls(fires)
  /\ UNCHANGED <<fixedVars, previousBatteryLevel, prediction, predictionCalls, relayVars>>

\* onValue(energyDataQuery) callback, "prevref" version
SnapshotRef(b) ==
  /\ mounted /\ variant = "prevref"
  /\ LET fire == RefFires(previousBatteryLevel, b)
         st0 == [requests |-> requests, isOptimizing |-> isOptimizing]
         st1 == IF fire THEN HandleOptimization(st0, TRUE) ELSE st0
         fires == IF fire THEN 1 ELSE 0
     IN  /\ ReqTotal(requests) + fires <= MaxRequests
         /\ energyData' = RefNewEnergyData(b)
         /\ requests' = st1.requests
         /\ isOptimizing' = st1.isOptimizing
         \* handleOptimization(newEnergyData, true)
         /\ RecordSnapshot(b, fires, FALSE)
         /\ aiReasoning' = ReasoningAfterCalls(fires)
  /\ UNCHANGED <<fixedVars, lowBatteryOptimizationTriggered, previousBatteryLevel,
                 prediction, predictionCalls, relayVars>>

\* ------------------------------------------------------- telemetry merge
\* The record under the latest key, with its voltage, current and
\* batteryLevel (temperature and humidity are merged like voltage); a field
\* the record does not carry is NoLevel.
TelemetryRecords ==
  [voltage : {NoLevel, 0, 12}, current : {NoLevel, 0, 2}, batteryLevel : {NoLevel, 35, 55, 60}]

INITIAL_ENERGY_DATA ==
  [voltage |-> 24, current |-> 1, batteryLevel |-> initBattery, power |-> 24]

\* a ?? b
Nullish(a, b) == IF a = NoLevel THEN b ELSE a

\* the condition (latestData.voltage && latestData.current)
BothTruthy(latestData) ==
  /\ latestData.voltage # NoLevel /\ latestData.voltage # 0
  /\ latestData.current # NoLevel /\ latestData.current # 0

\* the object the setEnergyData updater of the "latch" version returns
MergeLatch(prev, latestData) ==
  [voltage |-> Nullish(latestData.voltage, prev.voltage),
   current |-> Nullish(latestData.current, prev.current),
   batteryLevel |-> Nullish(latestData.batteryLevel, prev.batteryLevel),
   power |-> IF BothTruthy(latestData) THEN latestData.voltage * latestData.current
             ELSE prev.power]

\* newEnergyData of the "prevref" version
MergeRef(latestData) ==
  [voltage |-> Nullish(latestData.voltage, INITIAL_ENERGY_DATA.voltage),
   current |-> Nullish(latestData.current, INITIAL_ENERGY_DATA.current),
   batteryLevel |-> Nullish(latestData.batteryLevel, INITIAL_ENERGY_DATA.batteryLevel),
   power |-> IF BothTruthy(latestData) THEN latestData.voltage * latestData.current
             ELSE INITIAL_ENERGY_DATA.power]

Merge(prev, latestData) ==
  IF variant = "latch" THEN MergeLatch(prev, latestData) ELSE MergeRef(latestData)

\* onValue(energyDataQuery) callback, "latch" version, with every field
TelemetryLatch(latestData, runs) ==
  /\ mounted /\ variant = "latch"
  /\ LET b == latestData.batteryLevel
         r1 == LatchUpdater(energyData, lowBatteryOptimizationTriggered, b)
         r2 == LatchUpdater(energyData, r1.latch, b)
         last == IF runs = 2 THEN r2 ELSE r1
         st0 == [requests |-> requests, isOptimizing |-> isOptimizing]
         st1 == IF r1.fire THEN HandleOptimization(st0, TRUE) ELSE st0
         st2 == IF runs = 2 /\ r2.fire THEN HandleOptimization(st1, TRUE) ELSE st1
         fires == (IF r1.fire THEN 1 ELSE 0) + (IF runs = 2 /\ r2.fire THEN 1 ELSE 0)
         merged == MergeLatch(energyData, latestData)
     IN  /\ ReqTotal(requests) + fires <= MaxRequests
         /\ energyData' = merged
         /\ lowBatteryOptimizationTriggered' = last.latch
         /\ requests' = st2.requests
         /\ isOptimizing' = st2.isOptimizing
         /\ RecordSnapshot(b, fires, fires > 0 /\ energyData # merged)
         /\ aiReasoning' = ReasoningAfterCalls(fires)
  /\ UNCHANGED <<fixedVars, previousBatteryLevel, prediction, predictionCalls, relayVars>>

\* onValue(energyDataQuery) callback, "prevref" version, with every field
TelemetryRef(latestData) ==
  /\ mounted /\ variant = "prevref"
  /\ LET b == latestData.batteryLevel
         fire == RefFires(previousBatteryLevel, b)
         st0 == [requests |-> requests, isOptimizing |-> isOptimizing]
         st1 == IF fire THEN HandleOptimization(st0, TRUE) ELSE st0
         fires == IF fire THEN 1 ELSE 0
     IN  /\ ReqTotal(requests) + fires <= MaxRequests
         /\ energyData' = MergeRef(latestData)
         /\ requests' = st1.requests
         /\ isOptimizing' = st1.isOptimizing
         /\ RecordSnapshot(b, fires, FALSE)
         /\ aiReasoning' = ReasoningAfterCalls(fires)
  /\ UNCHANGED <<fixedVars, lowBatteryOptimizationTriggered, previousBatteryLevel,
                 prediction, predictionCalls, relayVars>>

\* useEffect(() => { previousBatteryLevel.current = energyData.batteryLevel },
\*           [energyData.batteryLevel]) after a render with a changed level
BatteryLevelEffect ==
  /\ mounted /\ variant = "prevref"
  /\ previousBatteryLevel # energyData.batteryLevel
  /\ previousBatteryLevel' = energyData.batteryLevel
  /\ UNCHANGED <<fixedVars, aiReasoning, energyData, lowBatteryOptimizationTriggered,
                 optVars, relayVars, guardHist>>

\* --------------------------------------------------------------- forecast
\* the operator's "predict" button: handlePrediction starts
PredictClick ==
  /\ mounted
  /\ predictionCalls < MaxPredictions
  /\ predictionCalls' = predictionCalls + 1
  /\ aiReasoning' = <<>>
  /\ UNCHANGED <<fixedVars, guardVars, guardHist, prediction, requests, isOptimizing, relayVars>>

\* runEnergyPrediction returns to a stand-alone handlePrediction
PredictionResult(ok) ==
  /\ predictionCalls > 0
  /\ predictionCalls' = predictionCalls - 1
  /\ prediction' = (prediction \/ ok)
  /\ UNCHANGED <<fixedVars, aiReasoning, guardVars, guardHist, requests, isOptimizing, relayVars>>

\* ------------------------------------------------------------ optimization
\* the operator's "optimize" button: handleOptimization(false)
OptimizeClick ==
  /\ mounted
  /\ ReqTotal(requests) < MaxRequests
  /\ LET st == HandleOptimization([requests |-> requests, isOptimizing |-> isOptimizing], FALSE)
     IN  /\ requests' = st.requests
         /\ isOptimizing' = st.isOptimizing
  /\ aiReasoning' = ReasoningAfterCalls(1)
  /\ UNCHANGED <<fixedVars, guardVars, guardHist, prediction, predictionCalls, relayVars>>

\* "await handlePrediction()" inside handleOptimization returns
ForecastResult(auto, ok) ==
  /\ requests[[auto |-> auto, stage |-> "forecast"]] > 0
  /\ prediction' = (prediction \/ ok)
  /\ LET st0 == [requests |-> [requests EXCEPT ![[auto |-> auto, stage |-> "forecast"]] = @ - 1],
                 isOptimizing |-> isOptimizing]
         st1 == ContinueOptimization(st0, auto, prediction \/ ok)
     IN  /\ requests' = st1.requests
         /\ isOptimizing' = st1.isOptimizing
  /\ deferredFire' = IF auto /\ (prediction \/ ok) THEN FALSE ELSE deferredFire
  /\ UNCHANGED <<fixedVars, aiReasoning, guardVars, observed, excursionFires, staleAutoCall,
                 predictionCalls, relayVars>>

\* ------------------------------------------------------------------ relays
\* names: the one INITIAL_SWITCHES gives a relay, and a missing name
Configured == "configured"
Undefined == "undefined"

INITIAL_SWITCHES ==
  [i \in 1..NumSwitches |-> [id |-> i, name |-> Configured, state |-> FALSE]]

HasSwitch(sw, id) == \E i \in 1..Len(sw) : sw[i].id = id
StateOf(sw, id) == sw[CHOOSE i \in 1..Len(sw) : sw[i].id = id].state

\* UpdateAllSwitches without the inversion
UpdateAllSwitchesNoInvert(sw, newSwitchDbStates) ==
  [i \in 1..Len(sw) |->
     [sw[i] EXCEPT !.state = IF i <= Len(newSwitchDbStates)
                             THEN newSwitchDbStates[i] ELSE FALSE]]

\* switches.map((s, i) => ({...s, state: !newSwitchDbStates[i]}))
\* (an index past the array reads undefined, and !undefined is true)
UpdateAllSwitches(sw, newSwitchDbStates) ==
  [i \in 1..Len(sw) |->
     [sw[i] EXCEPT !.state = IF i <= Len(newSwitchDbStates)
                             THEN ~newSwitchDbStates[i] ELSE TRUE]]

\* for (const s of updatedSwitches) updateSwitchState(s.id, s.name, s.state)
DecisionWrites(before, updated) ==
  [i \in 1..Len(updated) |->
     [id |-> updated[i].id, state |-> updated[i].state, kind |-> "decision",
      pre |-> before[i].state]]

\* writes of one kind that have not returned
Pending(ws, kind) == Cardinality({i \in DOMAIN ws : ws[i].kind = kind})

\* SetSwitch giving every relay the value
SetSwitchAll(sw, id, v) ==
  [i \in 1..Len(sw) |-> [sw[i] EXCEPT !.state = v]]

\* prev.map(s => s.id === id ? {...s, state: v} : s)
SetSwitch(sw, id, v) ==
  [i \in 1..Len(sw) |-> IF sw[i].id = id THEN [sw[i] EXCEPT !.state = v] ELSE sw[i]]

\* runIntelligentSwitchControl(...).then, result.success with data d
PolicySuccess(auto, d) ==
  /\ requests[[auto |-> auto, stage |-> "policy"]] > 0
  /\ requests' = [requests EXCEPT ![[auto |-> auto, stage |-> "policy"]] = @ - 1]
  /\ LET updatedSwitches == UpdateAllSwitches(switches, d)
     IN  /\ switches' = updatedSwitches
         /\ writes' = writes \o DecisionWrites(switches, updatedSwitches)
  /\ Pending(writes', "decision") <= Len(switches) * MaxBatches
  /\ aiReasoning' = d
  /\ isOptimizing' = FALSE
  /\ UNCHANGED <<fixedVars, guardVars, guardHist, prediction, predictionCalls,
                 store, notify>>

\* PolicyFailure taking the shown reasoning away
PolicyFailureClearsReasoning(auto) ==
  /\ requests[[auto |-> auto, stage |-> "policy"]] > 0
  /\ requests' = [requests EXCEPT ![[auto |-> auto, stage |-> "policy"]] = @ - 1]
  /\ isOptimizing' = FALSE
  /\ aiReasoning' = <<>>
  /\ UNCHANGED <<fixedVars, guardVars, guardHist, prediction, predictionCalls, relayVars>>

\* runIntelligentSwitchControl(...).then, failure
PolicyFailure(auto) ==
  /\ requests[[auto |-> auto, stage |-> "policy"]] > 0
  /\ requests' = [requests EXCEPT ![[auto |-> auto, stage |-> "policy"]] = @ - 1]
  /\ isOptimizing' = FALSE
  /\ UNCHANGED <<fixedVars, aiReasoning, guardVars, guardHist, prediction, predictionCalls, relayVars>>

\* how handleSwitchChange(id, _) leaves: at `if (!targetSwitch) return;`
\* without a toast, or after its write
ToggleOutcome(sw, id) == IF HasSwitch(sw, id) THEN "write" ELSE "return"

\* handleSwitchChange(id, checked) up to its await
HandleSwitchChange(id, checked) ==
  /\ mounted
  /\ HasSwitch(switches, id)
  /\ switches' = SetSwitch(switches, id, checked)
  /\ writes' = Append(writes, [id |-> id, state |-> checked, kind |-> "toggle",
                                pre |-> StateOf(switches, id)])
  /\ Pending(writes', "toggle") <= MaxToggleWrites
  /\ aiReasoning' = <<>>
  /\ UNCHANGED <<fixedVars, guardVars, guardHist, optVars, store, notify>>

\* updateSwitchState(id, name, state) succeeds: the store holds the wire value
WriteSucceed(w) ==
  /\ writes # <<>> /\ w = Head(writes)
  /\ writes' = Tail(writes)
  /\ store' = [k \in DOMAIN store \cup {w.id} |->
                 IF k = w.id THEN ToWire(w.state) ELSE store[k]]
  /\ notify' = (notify \/ w.id \notin DOMAIN store \/ store[w.id] # ToWire(w.state))
  /\ UNCHANGED <<fixedVars, aiReasoning, guardVars, guardHist, optVars, switches>>

\* WriteFail issuing the write again
WriteFailReissue(w) ==
  /\ writes # <<>> /\ w = Head(writes)
  /\ writes' = Append(Tail(writes), w)
  /\ switches' = IF w.kind = "toggle" THEN SetSwitch(switches, w.id, ~w.state) ELSE switches
  /\ UNCHANGED <<fixedVars, aiReasoning, guardVars, guardHist, optVars, store, notify>>

\* updateSwitchState(id, name, state) fails: handleSwitchChange reverts,
\* updateAllSwitches ignores the result
WriteFail(w) ==
  /\ writes # <<>> /\ w = Head(writes)
  /\ writes' = Tail(writes)
  /\ switches' = IF w.kind = "toggle" THEN SetSwitch(switches, w.id, ~w.state) ELSE switches
  /\ UNCHANGED <<fixedVars, aiReasoning, guardVars, guardHist, optVars, store, notify>>

\* ---------------------------------------------------------- relay ingest
\* A key of the relay map is a string, held as its sequence of characters:
\* 0..9 are the digits, NonDigit is any other character.
NonDigit == 10

\* number of leading digits of key from position i on
RECURSIVE LeadingDigits(_, _)
LeadingDigits(key, i) ==
  IF i > Len(key) \/ key[i] = NonDigit THEN 0 ELSE 1 + LeadingDigits(key, i + 1)

\* value of the decimal digits key[1..n]
RECURSIVE DigitsValue(_, _)
DigitsValue(key, n) ==
  IF n = 0 THEN 0 ELSE 10 * DigitsValue(key, n - 1) + key[n]

\* parseInt(id, 10): the leading digits, NaN when there is none
ParseInt(key) ==
  IF LeadingDigits(key, 1) = 0 THEN NaN ELSE DigitsValue(key, LeadingDigits(key, 1))

\* `Switch ${switchId}`
DefaultName(switchId) == "Switch " \o ToString(switchId)

\* FindIndex that never finds the id
FindIndexNone(sw, switchId) == 0

\* updatedSwitches.findIndex(sw => sw.id === switchId), 0 for -1
FindIndex(sw, switchId) ==
  IF switchId # NaN /\ \E i \in 1..Len(sw) : sw[i].id = switchId
  THEN CHOOSE i \in 1..Len(sw) :
         sw[i].id = switchId /\ \A j \in 1..(i - 1) : sw[j].id # switchId
  ELSE 0

\* updatedSwitches.sort((a, b) => a.id - b.id)
RECURSIVE SortById(_)
SortById(sw) ==
  IF Len(sw) <= 1 THEN sw
  ELSE LET m == CHOOSE i \in 1..Len(sw) :
                  /\ \A j \in 1..Len(sw) : sw[i].id <= sw[j].id
                  /\ \A j \in 1..(i - 1) : sw[j].id # sw[i].id
       IN  <<sw[m]>> \o SortById(SubSeq(sw, 1, m - 1) \o SubSeq(sw, m + 1, Len(sw)))

\* one turn of the forEach over Object.entries(data); e is
\* [key, hasState, state, name], acc is [list, hasChanged]
IngestEntry(acc, e) ==
  LET switchId == ParseInt(e.key)
      switchIndex == FindIndex(acc.list, switchId)
      newUiState == IF e.hasState THEN ToLogical(e.state) ELSE TRUE
  IN  IF variant = "prevref" /\ (switchId = NaN \/ ~e.hasState)
      THEN acc
      ELSE IF switchIndex # 0 /\ acc.list[switchIndex].state # newUiState
      THEN [list |-> [acc.list EXCEPT ![switchIndex] =
                        [id |-> @.id, name |-> e.name, state |-> newUiState]],
            hasChanged |-> TRUE]
      ELSE IF switchIndex = 0 /\ variant = "prevref"
      THEN [list |-> Append(acc.list,
                        [id |-> switchId,
                         name |-> IF e.name = Undefined THEN DefaultName(switchId)
                                  ELSE e.name,
                         state |-> newUiState]),
            hasChanged |-> TRUE]
      ELSE acc

RECURSIVE IngestEntries(_, _, _)
IngestEntries(acc, data, i) ==
  IF i > Len(data) THEN acc
  ELSE IngestEntries(IngestEntry(acc, data[i]), data, i + 1)

\* IngestUpdater rebuilding the list from the map alone: a relay the map
\* does not name falls back to its configured entry
IngestUpdaterFromMapOnly(prevSwitches, data) ==
  LET r == IngestEntries([list |-> prevSwitches, hasChanged |-> FALSE], data, 1)
      out == [i \in 1..Len(r.list) |->
                IF \E j \in 1..Len(data) : ParseInt(data[j].key) = r.list[i].id
                THEN r.list[i]
                ELSE [id |-> r.list[i].id, name |-> Configured, state |-> FALSE]]
  IN  IF variant = "prevref" THEN SortById(out) ELSE out

\* the setSwitches updater of onValue(switchStatesRef); data is the list of
\* the map's entries in Object.entries order
IngestUpdater(prevSwitches, data) ==
  LET r == IngestEntries([list |-> prevSwitches, hasChanged |-> FALSE], data, 1)
  IN  IF ~r.hasChanged THEN prevSwitches
      ELSE IF variant = "prevref" THEN SortById(r.list)
      ELSE r.list

\* hasChanged at the end of the updater: a new list is returned
IngestChanged(prevSwitches, data) ==
  IngestEntries([list |-> prevSwitches, hasChanged |-> FALSE], data, 1).hasChanged

\* the ids of S in ascending order
RECURSIVE Ascending(_)
Ascending(S) ==
  IF S = {} THEN <<>>
  ELSE LET m == CHOOSE x \in S : \A y \in S : x <= y
       IN  <<m>> \o Ascending(S \ {m})

\* snapshot.val() of app/switchStates as the page's own writes left it
StoreEntries(st) ==
  LET ids == Ascending(DOMAIN st)
  IN  [i \in 1..Len(ids) |->
         [key |-> <<ids[i]>>, hasState |-> TRUE, state |-> st[ids[i]],
          name |-> Configured]]

\* onValue(switchStatesRef) callback, delivering the store
RelayStateIngest ==
  /\ mounted /\ notify
  /\ notify' = FALSE
  /\ switches' = IngestUpdater(switches, StoreEntries(store))
  /\ UNCHANGED <<fixedVars, aiReasoning, guardVars, guardHist, optVars, store, writes>>

\* onValue(switchStatesRef) callback with a map other writers left in the store
RemoteRelayMap(raw) ==
  /\ mounted
  /\ switches' = IngestUpdater(switches, raw)
  /\ UNCHANGED <<fixedVars, aiReasoning, guardVars, guardHist, optVars, store, writes, notify>>

\* ------------------------------------------------------------------- mount
\* the effects of the first render: the ref is set from the initial state,
\* handlePrediction() starts, both subscriptions are opened
Mount ==
  /\ ~mounted
  /\ mounted' = TRUE
  /\ previousBatteryLevel' = IF variant = "prevref" THEN energyData.batteryLevel
                             ELSE previousBatteryLevel
  /\ predictionCalls' = 1
  /\ aiReasoning' = <<>>
  /\ notify' = TRUE
  /\ UNCHANGED <<variant, initBattery, energyData, lowBatteryOptimizationTriggered,
                 prediction, requests, isOptimizing, switches, store, writes,
                 guardHist, fwVars>>

\* --------------------------------------------------------------- firmware
\* ids a stream event can name: the configured relays, 0 and 6
EventIds == 0..(NumSwitches + 1)

\* getPinForSwitch: the relay's pin (named by the relay id), or -1
GetPinForSwitch(switchId) == IF switchId \in RelayIds THEN switchId ELSE -1

\* the level digitalWrite is given:
\*   first sketch   switchState ? HIGH : LOW
\*   second sketch  switchState ? LOW : HIGH
PinLevel(sk, switchState) ==
  IF sk = "first"
  THEN (IF switchState THEN "HIGH" ELSE "LOW")
  ELSE (IF switchState THEN "LOW" ELSE "HIGH")

Seen(switchState) == IF switchState THEN "true" ELSE "false"

\* streamCallback, event at /<id>/state carrying a boolean
StreamState(switchId, switchState) ==
  /\ IF switchId > 0 /\ GetPinForSwitch(switchId) # -1
     THEN /\ pin' = [pin EXCEPT ![GetPinForSwitch(switchId)] = PinLevel(sketch, switchState)]
          /\ fwSeen' = [fwSeen EXCEPT ![switchId] = Seen(switchState)]
     ELSE UNCHANGED <<pin, fwSeen>>
  /\ UNCHANGED <<sketch, dashVars>>

\* streamCallback, event at / carrying the whole map (every key has a state)
StreamMap(json) ==
  /\ pin' = [k \in RelayIds |->
               IF k \in DOMAIN json /\ k > 0 /\ GetPinForSwitch(k) # -1
               THEN PinLevel(sketch, json[k]) ELSE pin[k]]
  /\ fwSeen' = [k \in RelayIds |->
               IF k \in DOMAIN json THEN Seen(json[k]) ELSE fwSeen[k]]
  /\ UNCHANGED <<sketch, dashVars>>

\* streamCallback, event at /<id> carrying the relay's object {name, state}:
\* the path does not end in "/state"; the first sketch walks the object's
\* keys "name" and "state", whose toInt() is 0, and the second sketch takes
\* json only at "/", so neither writes a pin
StreamObject(switchId, switchState) ==
  /\ switchId \in RelayIds
  /\ fwSeen' = [fwSeen EXCEPT ![switchId] = Seen(switchState)]
  /\ UNCHANGED <<pin, sketch, dashVars>>

FwIdle ==
  /\ pin = [k \in RelayIds |-> "UNSET"]
  /\ fwSeen = [k \in RelayIds |-> "none"]

\* app/switchStates when the page opens: relay 2 is ON, the others OFF
InitialStore == [k \in RelayIds |-> k # 2]

\* the Dashboard after its first render, before the mount effects
DashInit ==
  /\ variant \in {"latch", "prevref"}
  /\ mounted = FALSE
  /\ initBattery \in InitialBatteryLevels
  /\ energyData = [batteryLevel |-> initBattery]
  /\ lowBatteryOptimizationTriggered = FALSE
  /\ previousBatteryLevel = NoLevel
  /\ prediction = FALSE
  /\ predictionCalls = 0
  /\ requests = NoRequests
  /\ isOptimizing = FALSE
  /\ switches = INITIAL_SWITCHES
  /\ store = InitialStore
  /\ writes = <<>>
  /\ notify = FALSE
  /\ observed = FALSE
  /\ excursionFires = 0
  /\ deferredFire = FALSE
  /\ staleAutoCall = FALSE
  /\ aiReasoning = <<>>

Init == DashInit /\ sketch = "second" /\ FwIdle

Snapshot ==
  \E b \in Levels \cup {NoLevel} :
    \/ \E runs \in 1..2 : SnapshotLatch(b, runs)
    \/ SnapshotRef(b)

Next ==
  \/ Mount
  \/ Snapshot
  \/ BatteryLevelEffect
  \/ PredictClick
  \/ \E ok \in BOOLEAN : PredictionResult(ok)
  \/ OptimizeClick
  \/ \E auto \in BOOLEAN, ok \in BOOLEAN : ForecastResult(auto, ok)
  \/ \E auto \in BOOLEAN, d \in Decisions : PolicySuccess(auto, d)
  \/ \E auto \in BOOLEAN : PolicyFailure(auto)
  \/ \E id \in ToggleIds, checked \in BOOLEAN : HandleSwitchChange(id, checked)
  \/ \E w \in Range(writes) : WriteSucceed(w)
  \/ \E w \in Range(writes) : WriteFail(w)
  \/ RelayStateIngest

Spec == Init /\ [][Next]_vars

\* the page after mount with a forecast available and no telemetry arriving
InitRelay ==
  /\ variant \in {"latch", "prevref"}
  /\ mounted = TRUE
  /\ initBattery = 75
  /\ energyData = [batteryLevel |-> initBattery]
  /\ lowBatteryOptimizationTriggered = FALSE
  /\ previousBatteryLevel = IF variant = "prevref" THEN initBattery ELSE NoLevel
  /\ prediction = TRUE
  /\ predictionCalls = 0
  /\ requests = NoRequests
  /\ isOptimizing = FALSE
  /\ switches = INITIAL_SWITCHES
  /\ store = InitialStore
  /\ writes = <<>>
  /\ notify = TRUE
  /\ observed = FALSE
  /\ excursionFires = 0
  /\ deferredFire = FALSE
  /\ staleAutoCall = FALSE
  /\ aiReasoning = <<>>
  /\ sketch = "second" /\ FwIdle

NextRelay ==
  \/ OptimizeClick
  \/ \E auto \in BOOLEAN, d \in Decisions : PolicySuccess(auto, d)
  \/ \E auto \in BOOLEAN : PolicyFailure(auto)
  \/ \E id \in ToggleIds, checked \in BOOLEAN : HandleSwitchChange(id, checked)
  \/ \E w \in Range(writes) : WriteSucceed(w)
  \/ \E w \in Range(writes) : WriteFail(w)
  \/ RelayStateIngest

SpecRelay == InitRelay /\ [][NextRelay]_vars

\* the all-OFF decision of the low-battery rule
GuardDecisions == { <<TRUE, TRUE, TRUE, TRUE, TRUE>> }

\* telemetry, forecast and optimization, both versions of Dashboard
NextGuard ==
  \/ Mount
  \/ Snapshot
  \/ BatteryLevelEffect
  \/ PredictClick
  \/ \E ok \in BOOLEAN : PredictionResult(ok)
  \/ OptimizeClick
  \/ \E auto \in BOOLEAN, ok \in BOOLEAN : ForecastResult(auto, ok)
  \/ \E auto \in BOOLEAN, d \in GuardDecisions : PolicySuccess(auto, d)
  \/ \E auto \in BOOLEAN : PolicyFailure(auto)
  \/ \E w \in Range(writes) : WriteSucceed(w)
  \/ \E w \in Range(writes) : WriteFail(w)
  \/ RelayStateIngest

SpecGuard == Init /\ [][NextGuard]_vars

\* the "latch" version with every operation of the page
InitLatch == Init /\ variant = "latch"

NextLatch ==
  \/ Mount
  \/ \E b \in Levels \cup {NoLevel}, runs \in 1..2 : SnapshotLatch(b, runs)
  \/ PredictClick
  \/ \E ok \in BOOLEAN : PredictionResult(ok)
  \/ OptimizeClick
  \/ \E auto \in BOOLEAN, ok \in BOOLEAN : ForecastResult(auto, ok)
  \/ \E auto \in BOOLEAN, d \in GuardDecisions : PolicySuccess(auto, d)
  \/ \E auto \in BOOLEAN : PolicyFailure(auto)
  \/ \E id \in ToggleIds, checked \in BOOLEAN : HandleSwitchChange(id, checked)
  \/ \E w \in Range(writes) : WriteSucceed(w)
  \/ \E w \in Range(writes) : WriteFail(w)
  \/ RelayStateIngest

SpecLatch == InitLatch /\ [][NextLatch]_vars

\* the controller: either sketch, fed stream events
InitFw ==
  /\ DashInit /\ variant = "prevref" /\ initBattery = 75
  /\ sketch \in {"first", "second"}
  /\ FwIdle

NextFw ==
  \/ \E id \in EventIds, v \in BOOLEAN : StreamState(id, v)
  \/ \E json \in [RelayIds -> BOOLEAN] : StreamMap(json)

SpecFw == InitFw /\ [][NextFw]_vars

\* the controller fed stream events of every shape
NextShapes ==
  \/ \E id \in EventIds, v \in BOOLEAN : StreamState(id, v)
  \/ \E json \in [RelayIds -> BOOLEAN] : StreamMap(json)
  \/ \E id \in RelayIds, v \in BOOLEAN : StreamObject(id, v)

SpecShapes == InitFw /\ [][NextShapes]_vars

\* the "latch" version under telemetry and forecasts, where every call that
\* has been started returns and every pending notification is delivered
InitDefer == Init /\ variant = "latch" /\ initBattery = 75

NextDefer ==
  \/ Mount
  \/ \E b \in Levels \cup {NoLevel}, runs \in 1..2 : SnapshotLatch(b, runs)
  \/ PredictClick
  \/ \E ok \in BOOLEAN : PredictionResult(ok)
  \/ \E auto \in BOOLEAN, ok \in BOOLEAN : ForecastResult(auto, ok)
  \/ \E auto \in BOOLEAN, d \in GuardDecisions : PolicySuccess(auto, d)
  \/ \E auto \in BOOLEAN : PolicyFailure(auto)
  \/ \E w \in Range(writes) : WriteSucceed(w)
  \/ \E w \in Range(writes) : WriteFail(w)
  \/ RelayStateIngest

SpecDefer ==
  /\ InitDefer /\ [][NextDefer]_vars
  /\ WF_vars(Mount)
  /\ WF_vars(\E ok \in BOOLEAN : PredictionResult(ok))
  /\ WF_vars(\E auto \in BOOLEAN, ok \in BOOLEAN : ForecastResult(auto, ok))
  /\ WF_vars(\E auto \in BOOLEAN :
               PolicyFailure(auto) \/ \E d \in GuardDecisions : PolicySuccess(auto, d))
  /\ WF_vars(\E w \in Range(writes) : WriteSucceed(w) \/ WriteFail(w))
  \* RelayStateIngest is enabled exactly when mounted /\ notify and clears
  \* notify, so this is its weak fairness
  /\ []<>(~(mounted /\ notify))

\* the page after telemetry took the level from 75 to CriticalLevel and the
\* automatic request this fired has ended; a forecast is held
CriticalLevel == 5

InitCritical ==
  /\ variant \in {"latch", "prevref"}
  /\ mounted = TRUE
  /\ initBattery = 75
  /\ energyData = [batteryLevel |-> CriticalLevel]
  /\ lowBatteryOptimizationTriggered = (variant = "latch")
  /\ previousBatteryLevel = IF variant = "prevref" THEN CriticalLevel ELSE NoLevel
  /\ prediction = TRUE
  /\ predictionCalls = 0
  /\ requests = NoRequests
  /\ isOptimizing = FALSE
  /\ switches = INITIAL_SWITCHES
  /\ store = InitialStore
  /\ writes = <<>>
  /\ notify = TRUE
  /\ observed = TRUE
  /\ excursionFires = 1
  /\ deferredFire = FALSE
  /\ staleAutoCall = (variant = "latch")
  /\ aiReasoning = <<>>
  /\ sketch = "second" /\ FwIdle

SpecCritical == InitCritical /\ [][NextRelay]_vars

\* the page holding a level of the 60-70 band, a forecast is held; the
\* policy may also return the all-ON decision
BandLevel == 65
AllOn == <<FALSE, FALSE, FALSE, FALSE, FALSE>>
BandDecisions == Decisions \cup {AllOn}

InitBand ==
  /\ variant \in {"latch", "prevref"}
  /\ mounted = TRUE
  /\ initBattery = 75
  /\ energyData = [batteryLevel |-> BandLevel]
  /\ lowBatteryOptimizationTriggered = FALSE
  /\ previousBatteryLevel = IF variant = "prevref" THEN BandLevel ELSE NoLevel
  /\ prediction = TRUE
  /\ predictionCalls = 0
  /\ requests = NoRequests
  /\ isOptimizing = FALSE
  /\ switches = INITIAL_SWITCHES
  /\ store = InitialStore
  /\ writes = <<>>
  /\ notify = TRUE
  /\ observed = TRUE
  /\ excursionFires = 0
  /\ deferredFire = FALSE
  /\ staleAutoCall = FALSE
  /\ aiReasoning = <<>>
  /\ sketch = "second" /\ FwIdle

NextBand ==
  \/ OptimizeClick
  \/ \E auto \in BOOLEAN, d \in BandDecisions : PolicySuccess(auto, d)
  \/ \E auto \in BOOLEAN : PolicyFailure(auto)
  \/ \E w \in Range(writes) : WriteSucceed(w)
  \/ \E w \in Range(writes) : WriteFail(w)
  \/ RelayStateIngest

SpecBand == InitBand /\ [][NextBand]_vars

\* the page fed telemetry records with every field while no forecast can be
\* had: each automatic request ends at its failed forecast
InitMerge ==
  /\ variant \in {"latch", "prevref"}
  /\ mounted = TRUE
  /\ initBattery = 75
  /\ energyData = INITIAL_ENERGY_DATA
  /\ lowBatteryOptimizationTriggered = FALSE
  /\ previousBatteryLevel = IF variant = "prevref" THEN initBattery ELSE NoLevel
  /\ prediction = FALSE
  /\ predictionCalls = 0
  /\ requests = NoRequests
  /\ isOptimizing = FALSE
  /\ switches = INITIAL_SWITCHES
  /\ store = InitialStore
  /\ writes = <<>>
  /\ notify = TRUE
  /\ observed = FALSE
  /\ excursionFires = 0
  /\ deferredFire = FALSE
  /\ staleAutoCall = FALSE
  /\ aiReasoning = <<>>
  /\ sketch = "second" /\ FwIdle

NextMerge ==
  \/ \E latestData \in TelemetryRecords, runs \in 1..2 : TelemetryLatch(latestData, runs)
  \/ \E latestData \in TelemetryRecords : TelemetryRef(latestData)
  \/ BatteryLevelEffect
  \/ \E auto \in BOOLEAN : ForecastResult(auto, FALSE)

SpecMerge == InitMerge /\ [][NextMerge]_vars

\* relay maps other writers can leave in app/switchStates: records under the
\* keys "1", "3", "7" (not configured), "01", "07" and a key that is no number
Renamed == "renamed"

Entry(key, hasState, state, name) ==
  [key |-> key, hasState |-> hasState, state |-> state, name |-> name]

\* records with a boolean state and any of the names, and one without state
Records(key, names) ==
  {Entry(key, TRUE, st, n) : st \in BOOLEAN, n \in names}
    \cup {Entry(key, FALSE, FALSE, Renamed)}

OptEntry(S) == {<<>>} \cup {<<e>> : e \in S}

\* Object.entries lists the integer keys in ascending order, then the others
RawMaps ==
  {k1 \o k3 \o k7 \o k01 \o k07 \o kx :
     k1 \in OptEntry(Records(<<1>>, {Renamed, Undefined})),
     k3 \in OptEntry(Records(<<3>>, {Renamed, Undefined})),
     k7 \in OptEntry(Records(<<7>>, {Renamed, Undefined})),
     k01 \in OptEntry({Entry(<<0, 1>>, TRUE, st, Undefined) : st \in BOOLEAN}),
     k07 \in OptEntry({Entry(<<0, 7>>, TRUE, st, Undefined) : st \in BOOLEAN}),
     kx \in OptEntry({Entry(<<NonDigit>>, TRUE, TRUE, Renamed)})}

\* the page fed relay maps only
NextIngest == \E raw \in RawMaps : RemoteRelayMap(raw)

SpecIngest == InitRelay /\ [][NextIngest]_vars

\* maps naming relay 1, the unconfigured relay 7, and relay 7 a second time
\* under the key "07"
HeldMaps ==
  {k1 \o k7 \o k07 :
     k1 \in OptEntry({Entry(<<1>>, TRUE, FALSE, Undefined)}),
     k7 \in OptEntry({Entry(<<7>>, TRUE, st, Undefined) : st \in BOOLEAN}),
     k07 \in OptEntry({Entry(<<0, 7>>, TRUE, TRUE, Undefined)})}

\* relay maps, manual toggles, decisions and write results
NextHeld ==
  \/ \E raw \in HeldMaps : RemoteRelayMap(raw)
  \/ OptimizeClick
  \/ \E auto \in BOOLEAN, d \in GuardDecisions : PolicySuccess(auto, d)
  \/ \E auto \in BOOLEAN : PolicyFailure(auto)
  \/ \E id \in ToggleIds, checked \in BOOLEAN : HandleSwitchChange(id, checked)
  \/ \E w \in Range(writes) : WriteSucceed(w)
  \/ \E w \in Range(writes) : WriteFail(w)
  \/ RelayStateIngest

SpecHeld == InitRelay /\ [][NextHeld]_vars

\* ================================================================= claims
SnapshotInputs == Levels \cup {NoLevel}

\* a telemetry snapshot carrying level b (NoLevel: no batteryLevel) is handled
SnapshotStep(b) == (\E runs \in 1..2 : SnapshotLatch(b, runs)) \/ SnapshotRef(b)

\* handleOptimization(true) calls made by the step
FiredCount == ReqTotal(requests') - ReqTotal(requests)

\* the level a snapshot reports: its own, or the held one when it has none
NewLevel(b) == IF b = NoLevel THEN energyData.batteryLevel ELSE b

\* C1: on every snapshot after the first, automation fires exactly once when
\* the held level p is >= 40 and the new level b is < 40, and not otherwise.
C1_FiresExactlyOnCrossing ==
  [][\A b \in SnapshotInputs :
       (SnapshotStep(b) /\ observed) =>
         FiredCount = IF energyData.batteryLevel >= Threshold /\ NewLevel(b) < Threshold
                      THEN 1 ELSE 0]_vars

\* C2: between two snapshots whose level is >= 40 at most one automation
\* event is fired.
C2_AtMostOneFirePerExcursion == excursionFires <= 1

\* C3: the first snapshot after process start never fires automation.
C3_FirstSnapshotNeverFires ==
  [][\A b \in SnapshotInputs : (SnapshotStep(b) /\ ~observed) => FiredCount = 0]_vars

\* C4: the latch is set exactly in the steps that fire automation, and it is
\* cleared only by a telemetry snapshot whose level is >= 40; no other
\* operation changes it.
C4_LatchSetByFireClearedByRecovery ==
  [][/\ (lowBatteryOptimizationTriggered' /\ ~lowBatteryOptimizationTriggered) =>
          \E b \in SnapshotInputs, runs \in 1..2 : SnapshotLatch(b, runs) /\ FiredCount >= 1
     /\ (~lowBatteryOptimizationTriggered' /\ lowBatteryOptimizationTriggered) =>
          \E b \in SnapshotInputs, runs \in 1..2 :
             SnapshotLatch(b, runs) /\ NewLevel(b) >= Threshold /\ FiredCount = 0
     /\ (FiredCount >= 1 /\ ~lowBatteryOptimizationTriggered') =>
          ~\E b \in SnapshotInputs, runs \in 1..2 : SnapshotLatch(b, runs)
    ]_vars

\* the latch is set, by the one fire of the current excursion
C4_Witness ==
  variant = "latch" /\ lowBatteryOptimizationTriggered /\ excursionFires = 1
  /\ energyData.batteryLevel < Threshold

\* C5: when a relay write of an applied decision fails, that relay's local
\* state is its pre-decision value again; when it succeeds the local states
\* stay as decided.
C5_FailedDecisionWriteRolledBack ==
  [][\A w \in Range(writes) :
       /\ (WriteFail(w) /\ w.kind = "decision") => StateOf(switches', w.id) = w.pre
       /\ (WriteSucceed(w) /\ w.kind = "decision") => switches' = switches]_vars

\* C6: when a manual toggle's write fails, the relay's local state is the
\* value it had immediately before the toggle and no other relay changes.
C6_FailedToggleRestoresPrevious ==
  [][\A w \in Range(writes) :
       (WriteFail(w) /\ w.kind = "toggle") =>
          /\ StateOf(switches', w.id) = w.pre
          /\ \A k \in RelayIds \ {w.id} : StateOf(switches', k) = StateOf(switches, k)]_vars

\* C7: at most one policy evaluation is in flight at any time.
C7_OnePolicyCallInFlight == InPolicy(requests) <= 1

\* C8: once no write is outstanding and every store change has been
\* delivered, each relay's local state is the negation of its wire state.
C8_LocalReconcilesToStore ==
  (writes = <<>> /\ ~notify) =>
     \A k \in RelayIds : StateOf(switches, k) = ToLogical(store[k])

\* C9: after the controller has processed a stored state for a relay, the
\* relay's pin is LOW exactly when that stored (wire) state is false.
C9_PinLowIffWireFalse ==
  \A k \in RelayIds :
     fwSeen[k] # "none" => ((pin[k] = "LOW") <=> (fwSeen[k] = "false"))

Ingested(raw) == IngestUpdater(switches, raw)

EntryOf(sw, id) == sw[FindIndex(sw, id)]

\* the key is the decimal numeral of an id
Canonical(key) ==
  /\ Len(key) >= 1
  /\ LeadingDigits(key, 1) = Len(key)
  /\ (Len(key) = 1 \/ key[1] # 0)

\* the ids the map has a key for
IdsOf(raw) == {ParseInt(raw[i].key) : i \in 1..Len(raw)}

\* C11: the codec is an involution, and reading back the wire value of a
\* write that succeeded decodes to the state that was written, so a relay
\* still holding that state is not changed by the ingest.
C11_CodecInvolution ==
  /\ \A x \in BOOLEAN : ToWire(ToLogical(x)) = x /\ ToLogical(ToWire(x)) = x
  /\ [][\A w \in Range(writes) :
          WriteSucceed(w) =>
            /\ ToLogical(store'[w.id]) = w.state
            /\ StateOf(switches, w.id) = w.state =>
                  EntryOf(IngestUpdater(switches, StoreEntries(store')), w.id)
                    = EntryOf(switches, w.id)]_vars

\* relay 3 was toggled ON, the write succeeded and the store's value has
\* been read back
C11_Witness ==
  /\ writes = <<>> /\ ~notify
  /\ StateOf(switches, 3) /\ store[3] = ToWire(TRUE)

\* C12: ingesting the same relay map a second time reports no change and
\* returns the held list itself.
C12_IngestIdempotent ==
  \A raw \in RawMaps :
     /\ ~IngestChanged(Ingested(raw), raw)
     /\ IngestUpdater(Ingested(raw), raw) = Ingested(raw)

\* C13: after a map is ingested, every configured relay the map has a
\* record with a state for, under the relay's id, holds the negation of that
\* state.
C13_HeldStateIsNegatedWire ==
  \A raw \in RawMaps : \A i \in 1..Len(raw) :
     (Canonical(raw[i].key) /\ raw[i].hasState
        /\ HasSwitch(switches, ParseInt(raw[i].key))) =>
       StateOf(Ingested(raw), ParseInt(raw[i].key)) = ToLogical(raw[i].state)

\* C14: after a map is ingested, every relay the map has a named record for
\* holds that name, also when its state did not change.
C14_HeldNameIsMapName ==
  \A raw \in RawMaps : \A i \in 1..Len(raw) :
     (Canonical(raw[i].key) /\ raw[i].hasState /\ raw[i].name # Undefined
        /\ HasSwitch(Ingested(raw), ParseInt(raw[i].key))
        /\ \A j \in 1..Len(raw) :
              ParseInt(raw[j].key) = ParseInt(raw[i].key) => j = i) =>
       EntryOf(Ingested(raw), ParseInt(raw[i].key)).name = raw[i].name

\* C15: ingesting a map leaves the entry of every held relay the map has no
\* key for as it was.
C15_AbsentIdsUntouched ==
  \A raw \in RawMaps : \A k \in 1..Len(switches) :
     switches[k].id \notin IdsOf(raw) =>
       /\ HasSwitch(Ingested(raw), switches[k].id)
       /\ EntryOf(Ingested(raw), switches[k].id) = switches[k]

\* relays 1 and 3 hold what earlier maps reported (relay 1 ON and renamed,
\* relay 3 ON without a name) and the relays no map named are as configured
C15_Witness ==
  /\ EntryOf(switches, 1) = [id |-> 1, name |-> Renamed, state |-> TRUE]
  /\ EntryOf(switches, 3) = [id |-> 3, name |-> Undefined, state |-> TRUE]
  /\ \A k \in {2, 4, 5} : EntryOf(switches, k) = INITIAL_SWITCHES[k]

\* C16: a record under an id that is not held is added to the held list with
\* its decoded state and its name, "Switch {id}" when it has none, and the
\* list is reported as changed.
C16_NewIdAdded ==
  \A raw \in RawMaps : \A i \in 1..Len(raw) :
     (Canonical(raw[i].key) /\ raw[i].hasState
        /\ ~HasSwitch(switches, ParseInt(raw[i].key))
        /\ \A j \in 1..Len(raw) :
              ParseInt(raw[j].key) = ParseInt(raw[i].key) => j = i) =>
       /\ HasSwitch(Ingested(raw), ParseInt(raw[i].key))
       /\ EntryOf(Ingested(raw), ParseInt(raw[i].key)) =
            [id |-> ParseInt(raw[i].key),
             name |-> IF raw[i].name = Undefined
                      THEN DefaultName(ParseInt(raw[i].key)) ELSE raw[i].name,
             state |-> ToLogical(raw[i].state)]
       /\ Ingested(raw) # switches

\* C17: the held relay list has exactly one entry per relay id and is never
\* empty.
C17_OneEntryPerId ==
  /\ Len(switches) >= 1
  /\ \A i, j \in 1..Len(switches) : switches[i].id = switches[j].id => i = j

\* relay 7 was added from a map and a decision covering it has been applied
C17_Witness ==
  /\ HasSwitch(switches, 7)
  /\ \E i \in DOMAIN writes : writes[i].kind = "decision" /\ writes[i].id = 7

\* ------------------------------------------------------------ optimization
\* C18: the policy is invoked, and decision writes are issued, only when a
\* forecast is held; a handleOptimization call whose forecast fails while
\* none is held ends without a policy call.
C18_NoPolicyWithoutForecast ==
  [][/\ InPolicy(requests') > InPolicy(requests) => prediction'
     /\ Pending(writes', "decision") > Pending(writes, "decision") => prediction
     /\ \A auto \in BOOLEAN :
          (ForecastResult(auto, FALSE) /\ ~prediction) =>
             /\ InPolicy(requests') = InPolicy(requests)
             /\ ReqTotal(requests') = ReqTotal(requests) - 1
    ]_vars

\* an automatic request has ended and no forecast is held
C18_Witness ==
  mounted /\ ~prediction /\ excursionFires >= 1 /\ ReqTotal(requests) = 0

\* C19: when a fire of the current excursion found no forecast and a
\* forecast is now held, the policy is eventually invoked for the fire (or
\* the level recovers first).
C19_DeferredFireEventuallyServed ==
  (deferredFire /\ prediction) ~> ~deferredFire

\* C20: a decision applied while the held battery level is below 10 leaves
\* every held relay OFF.
C20_CriticalLevelAllOff ==
  [][\A auto \in BOOLEAN, d \in Decisions :
        (PolicySuccess(auto, d) /\ energyData.batteryLevel < 10) =>
           \A k \in 1..Len(switches') : ~switches'[k].state]_vars

\* the cap on relays ON for the band that holds the level, NumSwitches where
\* no band caps it
BandCap(level) ==
  IF level < 10 THEN 0
  ELSE IF level <= 30 THEN 1
  ELSE IF level >= 40 /\ level <= 50 THEN 2
  ELSE IF level >= 60 /\ level <= 70 THEN 3
  ELSE NumSwitches

OnCount(sw) == Cardinality({i \in 1..Len(sw) : sw[i].state})

\* C21: after a decision is applied the number of relays ON does not exceed
\* the cap of the band of the held battery level, and is exactly 3 at 65.
C21_OnCountWithinBandCap ==
  [][\A auto \in BOOLEAN, d \in BandDecisions :
        PolicySuccess(auto, d) =>
          /\ OnCount(switches') <= BandCap(energyData.batteryLevel)
          /\ energyData.batteryLevel = 65 => OnCount(switches') = 3]_vars

\* C22: an applied decision sets every held relay from the policy output for
\* that relay's id.
C22_EveryRelayFromItsOutput ==
  [][\A auto \in BOOLEAN, d \in GuardDecisions :
        PolicySuccess(auto, d) =>
          \A i \in 1..Len(switches') :
             /\ switches'[i].id \in 1..Len(d)
             /\ switches'[i].state = ToLogical(d[switches'[i].id])]_vars

\* ---------------------------------------------------------- telemetry merge
MergedFields == {"voltage", "current", "batteryLevel"}

\* C23: the merge keeps the held value of every field the record does not
\* carry and takes the record's value of every field it carries.
C23_MergeCarriesForward ==
  \A latestData \in TelemetryRecords : \A f \in MergedFields :
     Merge(energyData, latestData)[f] = Nullish(latestData[f], energyData[f])

\* C24: after a record is merged the held power is held voltage x held
\* current.
C24_PowerIsVoltageTimesCurrent ==
  \A latestData \in TelemetryRecords :
     LET merged == Merge(energyData, latestData)
     IN  merged.power = merged.voltage * merged.current

\* a record with none of the fields
NoFields == [voltage |-> NoLevel, current |-> NoLevel, batteryLevel |-> NoLevel]

\* C25: a record with no recognizable field leaves the held snapshot and the
\* latch as they are and fires nothing.
C25_EmptyRecordIgnored ==
  /\ Merge(energyData, NoFields) = energyData
  /\ variant = "latch" =>
       LET r == LatchUpdater(energyData, lowBatteryOptimizationTriggered, NoLevel)
       IN  ~r.fire /\ r.latch = lowBatteryOptimizationTriggered
  /\ variant = "prevref" => ~RefFires(previousBatteryLevel, NoLevel)

\* ----------------------------------------------------- malformed relay records
\* the record's key is no integer id or the record has no state
Malformed(e) == ParseInt(e.key) = NaN \/ ~e.hasState

\* the map without its malformed records
RECURSIVE WellFormed(_)
WellFormed(raw) ==
  IF raw = <<>> THEN <<>>
  ELSE (IF Malformed(Head(raw)) THEN <<>> ELSE <<Head(raw)>>) \o WellFormed(Tail(raw))

\* C26: the ingest ignores malformed relay records: the held list and the
\* reported change are those of the map without them, and a map of malformed
\* records alone changes nothing.
C26_MalformedRecordsIgnored ==
  \A raw \in RawMaps :
     /\ Ingested(raw) = Ingested(WellFormed(raw))
     /\ IngestChanged(switches, raw) = IngestChanged(switches, WellFormed(raw))
     /\ WellFormed(raw) = <<>> => Ingested(raw) = switches /\ ~IngestChanged(switches, raw)

\* -------------------------------------------------------- foreign relay ids
\* an id INITIAL_SWITCHES does not configure
ForeignIds == {7}

\* C27: a toggle of an id that is not configured ends in an error, and a
\* stored record under such an id is rejected: the held list stays as it is.
C27_ForeignIdRejected ==
  \A id \in ForeignIds :
     /\ ToggleOutcome(switches, id) = "error"
     /\ \A raw \in RawMaps :
           (\A i \in 1..Len(raw) : Canonical(raw[i].key) /\ ParseInt(raw[i].key) = id) =>
             Ingested(raw) = switches

\* -------------------------------------------------------------- relay writes
\* the writes a step has issued
NewWrites == {i \in 1..Len(writes') : i > Len(writes)}

\* C28: a manual toggle of relay id starts no forecast and no policy request,
\* issues one write, for relay id, and leaves every other relay as it was;
\* when the write fails only relay id is reverted.
C28_ToggleTouchesOneRelay ==
  [][/\ \A id \in ToggleIds, checked \in BOOLEAN :
          HandleSwitchChange(id, checked) =>
            /\ requests' = requests /\ predictionCalls' = predictionCalls
            /\ isOptimizing' = isOptimizing
            /\ SubSeq(writes', 1, Len(writes)) = writes
            /\ \A i \in NewWrites : writes'[i].id = id /\ writes'[i].state = checked
            /\ StateOf(switches', id) = checked
            /\ \A k \in 1..Len(switches) :
                  switches[k].id # id => switches'[k] = switches[k]
     /\ \A w \in Range(writes) :
          (w.kind = "toggle" /\ WriteFail(w)) =>
            /\ requests' = requests /\ predictionCalls' = predictionCalls
            /\ \A k \in 1..Len(switches) :
                  switches[k].id # w.id => switches'[k] = switches[k]
    ]_vars

\* relay 3 has been toggled ON while relay 2 is held ON, the write is on its
\* way and no request is in flight
C28_Witness ==
  /\ requests = NoRequests
  /\ StateOf(switches, 3) /\ StateOf(switches, 2) /\ ~StateOf(switches, 1)
  /\ \E i \in DOMAIN writes :
        writes[i].kind = "toggle" /\ writes[i].id = 3 /\ writes[i].state

\* C29: a toggle issues exactly one write, an applied decision exactly one
\* write for every held relay, and a write that fails is not issued again.
C29_NoRetry ==
  [][/\ \A id \in ToggleIds, checked \in BOOLEAN :
          HandleSwitchChange(id, checked) => Cardinality(NewWrites) = 1
     /\ \A auto \in BOOLEAN, d \in Decisions :
          PolicySuccess(auto, d) =>
            /\ SubSeq(writes', 1, Len(writes)) = writes
            /\ \A k \in 1..Len(switches) :
                  Cardinality({i \in NewWrites : writes'[i].id = switches[k].id}) = 1
            /\ Cardinality(NewWrites) = Len(switches)
     /\ \A w \in Range(writes) : WriteFail(w) => writes' = Tail(writes)
    ]_vars

\* every write has returned and been read back, and a relay is held in a
\* state the store does not have: its write failed and was not issued again
C29_Witness ==
  /\ writes = <<>> /\ ~notify /\ requests = NoRequests
  /\ \E k \in 1..Len(switches) :
        store[switches[k].id] # ToWire(switches[k].state)

\* ------------------------------------------------------- telemetry to policy
\* C30: the telemetry an automatic request hands to the policy is that of
\* the snapshot that crossed the threshold.
C30_PolicyGetsCrossingSnapshot ==
  requests[[auto |-> TRUE, stage |-> "policy"]] > 0 => ~staleAutoCall

\* ------------------------------------------------------------ policy result
\* C31: a policy call that returns failure changes no relay's held state,
\* issues no write and leaves the shown reasoning as it is.
C31_PolicyFailureChangesNothing ==
  [][\A auto \in BOOLEAN :
        PolicyFailure(auto) =>
          /\ switches' = switches
          /\ writes' = writes
          /\ store' = store
          /\ aiReasoning' = aiReasoning]_vars

\* the reasoning of an applied decision is shown and relay 3 is held ON by
\* it while the second of two overlapping policy requests is still out
C31_Witness ==
  /\ aiReasoning # <<>> /\ StateOf(switches, 3)
  /\ InPolicy(requests) = 1 /\ ~isOptimizing

\* C32: isOptimizing is true exactly while a policy request is outstanding.
C32_OptimizingIffRequestOutstanding ==
  isOptimizing <=> InPolicy(requests) > 0

\* ------------------------------------------------------ decisions and ids
\* C33: an applied decision gives every configured relay k, wherever it
\* stands in the held list, the value of its own output d[k], and no relay
\* is held ON afterwards unless the decision marks it ON; a held relay with
\* an id outside 1..5 is not switched ON.
C33_DecisionById ==
  [][\A auto \in BOOLEAN, d \in GuardDecisions :
        PolicySuccess(auto, d) =>
          /\ \A k \in RelayIds :
                HasSwitch(switches', k) => StateOf(switches', k) = ToLogical(d[k])
          /\ \A i \in 1..Len(switches') :
                switches'[i].state =>
                  /\ switches'[i].id \in RelayIds
                  /\ ToLogical(d[switches'[i].id])]_vars

\* ------------------------------------------------------------ event shapes
\* C34: after every stream event that carries a state for a configured relay
\* k, pin k is at the level the sketch gives that state.
C34_PinFollowsEveryShape ==
  \A k \in RelayIds :
     fwSeen[k] # "none" => pin[k] = PinLevel(sketch, fwSeen[k] = "true")

\* -------------------------------------------------------- latch and level
\* C35: whenever the latch is set the held battery level is below the
\* threshold.
C35_LatchImpliesLow ==
  variant = "latch" =>
    (lowBatteryOptimizationTriggered => energyData.batteryLevel < Threshold)

\* the snapshot with level 35 has set the latch
C35_Witness ==
  lowBatteryOptimizationTriggered /\ energyData.batteryLevel = 35

====
